---- MODULE Spec2Model ----
(***************************************************************************)
(* Bill creation and price resolution of FreshBooksBackend.                *)
(*                                                                         *)
(* Two servers of the repository serve the same routes: the modular one    *)
(* (src/routes/*.ts with VegetableServiceImpl of                           *)
(* src/services/vegetable.service.ts) and the monolith (src/index.ts with  *)
(* its own VegetableService).  `server` says which one is deployed.        *)
(*                                                                         *)
(* Units.  Prices are decimal numbers with up to three decimals and are    *)
(* kept in mills (1/1000); quantities are whole numbers; item_total, total *)
(* and the numeric(10,2) column fixed_price are kept in cents.  Every      *)
(* awaited store or cache call of a handler is one atomic step; the        *)
(* synchronous code up to the next await belongs to the same step.         *)
(***************************************************************************)
EXTENDS Integers, Sequences, FiniteSets, TLC

\* ------------------------------------------------------------------ bounds
MaxReq == 3          \* requests issued in one run
MaxSeq == 2          \* requests issued in one sequential run
MaxItems == 2        \* line items of one bill submission
TickSeconds == 1800  \* seconds that pass in one step of the cache's clock
MaxTime == 5         \* last tick of the rate limiter's clock
windowMs == 2        \* createRateLimiter(windowMs, max), in ticks: 60000 ms scaled down
max == 2             \* createRateLimiter(windowMs, max): 100 scaled down

\* --------------------------------------------------------------- constants
PRICE_DECIMALS == 2  \* CONFIG.PRICE_DECIMALS
CACHE_DURATION == 3600  \* CONFIG.CACHE_DURATION, seconds

None == <<>>
Some(v) == <<v>>
IsSome(o) == o # <<>>
Get(o) == o[1]

\* A cache entry without an expiry.
EntryNoExpiry(v) == <<v, 0>>

\* redis.set(key, value, { ex: CONFIG.CACHE_DURATION }): the value and the
\* time it has left, in ticks.
Entry(v) == <<v, CACHE_DURATION \div TickSeconds>>

\* ------------------------------------------------------------------ inputs
\* Request bodies the clients send.  price is in mills, quantity a whole
\* number, item_total (optional, caller supplied) and total are in cents.
Item(n, p, q, t) == [name |-> n, price |-> p, quantity |-> q, item_total |-> t]

\* Line items of the pricing runs: the two Tomato lines of the example
\* (2.00 x 3 and 2.00 x 2), a Potato line whose product ends in a half cent
\* (1.005 x 3 = 3.015), one whose product is below half a cent (0.004 x 1)
\* and two lines the validator rejects (quantity 0, price 0).
RichItems ==
    { Item("Tomato", 2000, 3, Some(1)),
      Item("Tomato", 2000, 2, None),
      Item("Potato", 1005, 3, Some(9999)),
      Item("Potato", 4, 1, None),
      Item("Potato", 99000, 0, None),
      Item("Tomato", 0, 2, None) }

\* Line items of the concurrent runs.
RaceItems == { Item("Leek", 2000, 1, None) }

\* Line items of the runs to completion: the Leek line and a line the
\* validator rejects (quantity 0).
LiveItems == RaceItems \cup { Item("Leek", 2000, 0, None) }

SeqsUpTo(S, n) == UNION { [1..k -> S] : k \in 0..n }

\* A bill submission: the provider's id and name, the line items, the
\* caller's total and the optional date of the transaction.
Bill(pid, pname, its, d) ==
    [providerId |-> pid, providerName |-> pname, items |-> its, total |-> 1, date |-> d]

\* Submissions of the registered provider, without a date.
BillBodies(Items) ==
    { Bill(1, "Test", its, None) : its \in SeqsUpTo(Items, MaxItems) }

VegBody(n, a, h, f) ==
    [name |-> n, isAvailable |-> a, hasFixedPrice |-> h, fixedPrice |-> f]

\* Bodies of POST /api/vegetables and PATCH /api/vegetables/:id (fixedPrice
\* in mills): a plain row, Potato fixed at 2.50, a fixed-price flag without a
\* price, and a fixedPrice the schema rejects.
RichVegBodies ==
    { VegBody("Tomato", TRUE, FALSE, None),
      VegBody("Potato", TRUE, TRUE, Some(2500)),
      VegBody("Potato", TRUE, TRUE, None),
      VegBody("Tomato", TRUE, FALSE, Some(0)) }

\* Bodies of the concurrent runs.
RaceVegBodies ==
    { VegBody("Leek", TRUE, FALSE, None),
      VegBody("Potato", FALSE, TRUE, Some(2500)) }

\* ---------------------------------------------------------------- numbers
RECURSIVE SumSeq(_)
SumSeq(s) == IF s = <<>> THEN 0 ELSE s[1] + SumSeq(Tail(s))

Pow10(n) == IF n = 0 THEN 1 ELSE IF n = 1 THEN 10 ELSE IF n = 2 THEN 100 ELSE 1000

\* One cent in mills.
CentMills == Pow10(3 - PRICE_DECIMALS)

\* price * quantity is an IEEE-754 binary64 product.  It matters only when
\* the decimal product ends in a half cent: 1.005 is stored as
\* 1.00499999999999989..., so 1.005 * q lies below the decimal product,
\* while 0.125 * q is exact in binary.
Binary64Below(price, quantity) == price \in {1005}

\* Number(x.toFixed(PRICE_DECIMALS)) in cents, for the binary64 nearest to
\* the decimal x mills: the nearest multiple of a cent, and on an exact tie
\* the larger one (ECMAScript Number.prototype.toFixed).
ToFixed(x, below) ==
    IF (2 * (x % CentMills) = CentMills) /\ below
    THEN x \div CentMills
    ELSE (2 * x + CentMills) \div (2 * CentMills)

\* Decimal rounding half away from zero to PRICE_DECIMALS decimals, in cents.
RoundHalfAway(x) == (2 * x + CentMills) \div (2 * CentMills)

\* Number((price * quantity).toFixed(CONFIG.PRICE_DECIMALS))
ItemTotal(price, quantity) == ToFixed(price * quantity, Binary64Below(price, quantity))

\* A value written to a numeric(10,2) column (mills to cents).
ToNumeric(x) == RoundHalfAway(x)

\* Number(row.fixedPrice): the numeric string read back, in mills.
FromNumeric(c) == c * CentMills

\* ------------------------------------------------------------------- state
VARIABLES
    server,      \* "routes" (src/routes + VegetableServiceImpl) or "index" (src/index.ts)
    vegetables,  \* table vegetables: rows in insertion order, id = position
    bills,       \* table bills
    clock,       \* server time, read by new Date()
    cache,       \* Redis: key -> None | Some(value)
    req,         \* the requests: position and locals of each handler
    acked,       \* ids of the bills whose POST /api/bills was answered 201
    providers,   \* table providers
    now,         \* Date.now() as the rate limiter reads it, in ticks
    requests,    \* the rate limiter's Map entry of the client address
    passed,      \* the times at which the rate limiter called next()
    rejected     \* the times at which the rate limiter answered 429

vars == <<server, vegetables, bills, clock, cache, req, acked, providers, now,
          requests, passed, rejected>>

\* What the handlers of the catalogue and of the bills never write.
env == <<server, providers, now, requests, passed, rejected>>

Req == 1..MaxReq
Servers == {"routes", "index"}
\* `bill:${id}`; id 0 stands for a path parameter that is no uuid.
BillKey(id) == <<"bill:abc", "bill:1", "bill:2", "bill:3", "bill:4", "bill:5", "bill:6">>[id + 1]

CacheKeys ==
    {"bills:all", "vegetables:all", "providers:all"} \cup { BillKey(id) : id \in 0..6 }

Idle ==
    [kind |-> "none", pc |-> "idle", body |-> <<>>, vid |-> 0, i |-> 0,
     validatedItems |-> <<>>, batch |-> <<>>, data |-> <<>>, status |-> 0,
     resp |-> <<>>, ev |-> <<>>, mustSee |-> {}, unseen |-> {}, flags |-> {},
     created |-> {}, nameMatch |-> TRUE, dels |-> {}, gone |-> {}]

Init ==
    /\ server \in Servers
    /\ vegetables = <<>>
    /\ bills = <<>>
    /\ clock = 1
    /\ cache = [k \in CacheKeys |-> None]
    /\ req = [r \in Req |-> Idle]
    /\ acked = {}
    /\ providers = <<[id |-> 1, name |-> "Test"]>>
    /\ now = 0
    /\ requests = None
    /\ passed = <<>>
    /\ rejected = {}

\* ------------------------------------------------------------ validators
\* A schema that accepts zero: z.number().nonnegative().
ValidItemNonNegative(it) == it.quantity >= 0 /\ it.price >= 0

\* vegetableItemSchema: quantity and price are z.number().positive().
ValidItem(it) == it.quantity > 0 /\ it.price > 0

\* billSchema: every item valid, total z.number().positive().
ValidBill(body) ==
    /\ body.total > 0
    /\ \A k \in 1..Len(body.items) : ValidItem(body.items[k])

\* vegetableSchema: fixedPrice is z.number().positive().nullish().
ValidVeg(body) == IsSome(body.fixedPrice) => Get(body.fixedPrice) > 0

\* -------------------------------------------------------------- reconciler
\* select().from(vegetables).where(eq(vegetables.name, name)): the positions
\* of the matching rows.  The code takes the first row returned; without an
\* ORDER BY the store may return the matching rows in any order.
RowsNamed(name) == { k \in 1..Len(vegetables) : vegetables[k].name = name }

\* The effective price of a line whose name is in the catalogue.
\* index.ts: hasFixedPrice && fixedPrice ? Number(fixedPrice) : item.price;
\* vegetable.service.ts: item.price.
EffectivePrice(impl, item, veg) ==
    IF impl = "index" /\ veg.hasFixedPrice /\ IsSome(veg.fixedPrice)
    THEN FromNumeric(Get(veg.fixedPrice))
    ELSE item.price

\* The entry pushed for a line whose name is in the catalogue.
ResolveExisting(impl, item, veg) ==
    LET price == EffectivePrice(impl, item, veg) IN
    [id |-> veg.id, name |-> item.name, quantity |-> item.quantity,
     price |-> price, item_total |-> ItemTotal(price, item.quantity),
     isAvailable |-> veg.isAvailable, hasFixedPrice |-> veg.hasFixedPrice,
     fixedPrice |-> veg.fixedPrice]

\* The values pushed on the batch for a line whose name is not in the catalogue.
NewVegetable(name) ==
    [name |-> name, isAvailable |-> TRUE, hasFixedPrice |-> FALSE, fixedPrice |-> None]

\* insert(vegetables).values(batch).returning(): one row per batch entry,
\* with fresh ids, in the order of the batch.
InsertedRows(batch, base) ==
    [k \in 1..Len(batch) |->
        [id |-> base + k, name |-> batch[k].name, isAvailable |-> batch[k].isAvailable,
         hasFixedPrice |-> batch[k].hasFixedPrice, fixedPrice |-> batch[k].fixedPrice]]

\* items.find((item) => item.name === name): the first line with that name.
FindItem(items, name) ==
    items[CHOOSE k \in 1..Len(items) :
            /\ items[k].name = name
            /\ \A j \in 1..(k - 1) : items[j].name # name]

\* The entry pushed for a newly inserted row: {...originalItem, id, item_total, ...}.
ResolveNew(items, newVeg) ==
    LET originalItem == FindItem(items, newVeg.name) IN
    [id |-> newVeg.id, name |-> originalItem.name, quantity |-> originalItem.quantity,
     price |-> originalItem.price,
     item_total |-> ItemTotal(originalItem.price, originalItem.quantity),
     isAvailable |-> TRUE, hasFixedPrice |-> FALSE, fixedPrice |-> None]

\* The rejected total: the raw products summed and rounded once.
BillTotalUnrounded(validatedItems) ==
    ToFixed(SumSeq([k \in 1..Len(validatedItems) |->
                      validatedItems[k].price * validatedItems[k].quantity]), FALSE)

\* Number(validatedItems.reduce((sum, item) => sum + (item.item_total || 0), 0).toFixed(2))
\* A sum of cent amounts is never within a binary64 error of a half cent.
BillTotal(validatedItems) ==
    ToFixed(SumSeq([k \in 1..Len(validatedItems) |-> validatedItems[k].item_total])
              * CentMills, FALSE)

\* ---------------------------------------------------------------- requests
CanStart(r) ==
    /\ req[r].pc = "idle"
    /\ r > 1 => req[r - 1].pc # "idle"

CatalogueNames == { vegetables[k].name : k \in 1..Len(vegetables) }

Names(items) == { items[k].name : k \in 1..Len(items) }

\* The ids of the bills that an answered bulk delete has removed.
Gone ==
    UNION { { req[s].resp[k].id : k \in 1..Len(req[s].resp) } :
              s \in { t \in Req : /\ req[t].kind = "deleteTest"
                                  /\ req[t].pc = "done" /\ req[t].status = 200 } }

\* The handler returns (or throws into the error handler) with this status;
\* its locals are gone.
Respond(rec, status, resp) ==
    [rec EXCEPT !.pc = "done", !.status = status, !.resp = resp, !.body = <<>>,
                !.vid = 0, !.i = 0, !.validatedItems = <<>>, !.batch = <<>>,
                !.data = <<>>]

\* An error handler that answers every error 400.
ErrorStatusAll400(err) == 400

\* errorHandler: a ZodError is answered 400, every other error 500.
ErrorStatus(err) == IF err = "ZodError" THEN 400 ELSE 500

\* An awaited store call rejects: the handler throws, asyncHandler passes the
\* error to errorHandler, which answers 500.  The rejected call wrote nothing.
ThrownUnanswered(rec, flag) ==
    [rec EXCEPT !.flags = @ \cup {flag}, !.pc = "thrown"]

ThrownSwallowed(rec, flag) ==
    [rec EXCEPT !.flags = @ \cup {flag}, !.pc = "insertBill"]

Thrown(rec, flag) ==
    Respond([rec EXCEPT !.flags = @ \cup {flag}], ErrorStatus("Error"), <<>>)

\* ------------------------------------------------------- POST /api/bills
\* The awaited calls of the handler, in order: the reconciler's lookups, its
\* batch insert when the batch is not empty, the bill insert, cache.del.
NextPcDelFirst(pc, pending) ==
    CASE pc = "lookup" -> IF pending THEN "insertVegs" ELSE "cacheDel"
      [] pc = "insertVegs" -> "cacheDel"
      [] pc = "cacheDel" -> "insertBill"
      [] pc = "insertBill" -> "done"

NextPc(pc, pending) ==
    CASE pc = "lookup" -> IF pending THEN "insertVegs" ELSE "insertBill"
      [] pc = "insertVegs" -> "insertBill"
      [] pc = "insertBill" -> "cacheDel"
      [] pc = "cacheDel" -> "done"

\* After the step that leaves the handler at pc: res.status(201).json(bill)
\* once the last call has returned.
Advance(rec, pc) ==
    IF pc = "done" THEN Respond(rec, 201, rec.data) ELSE [rec EXCEPT !.pc = pc]

\* The bills answered 201 once the handler has reached rec.
AckedAfter(rec) ==
    IF rec.pc = "done" /\ rec.status = 201 /\ rec.resp # <<>>
    THEN acked \cup {rec.resp[1].id} ELSE acked

\* billSchema.parse(billData); a ZodError is answered 400 by the error handler.
StartPostBill(r, Bodies) ==
    /\ CanStart(r)
    /\ \E body \in Bodies :
         LET rec == [Idle EXCEPT !.kind = "postBill", !.body = body, !.i = 1,
                                 !.unseen = Names(body.items) \ CatalogueNames,
                                 !.flags = IF \E k \in 1..Len(body.items) :
                                                 \/ body.items[k].quantity <= 0
                                                 \/ body.items[k].price <= 0
                                            THEN {"badItem"} ELSE {}] IN
         req' = [req EXCEPT ![r] =
                   IF ~ValidBill(body) THEN Respond(rec, ErrorStatus("ZodError"), <<>>)
                   ELSE IF body.items = <<>> THEN [rec EXCEPT !.pc = NextPc("lookup", FALSE)]
                   ELSE [rec EXCEPT !.pc = "lookup"]]
    /\ UNCHANGED <<env, vegetables, bills, clock, cache, acked>>

\* One pass of the for loop: the lookup by name, then the push on
\* validatedItems or on the batch.
Lookup(r) ==
    LET rec == req[r]
        item == rec.body.items[rec.i]
        last == rec.i = Len(rec.body.items) IN
    /\ rec.kind = "postBill" /\ rec.pc = "lookup"
    /\ \/ /\ RowsNamed(item.name) = {}
          /\ LET batch == Append(rec.batch, NewVegetable(item.name))
                 nxt == [rec EXCEPT !.batch = batch, !.i = rec.i + 1] IN
             req' = [req EXCEPT ![r] =
                       IF last THEN [nxt EXCEPT !.pc = NextPc("lookup", TRUE)] ELSE nxt]
       \/ \E k \in RowsNamed(item.name) :
             LET nxt == [rec EXCEPT
                           !.validatedItems = Append(@, ResolveExisting(server, item, vegetables[k])),
                           !.i = rec.i + 1] IN
             req' = [req EXCEPT ![r] =
                       IF last THEN [nxt EXCEPT !.pc = NextPc("lookup", rec.batch # <<>>)]
                       ELSE nxt]
    /\ UNCHANGED <<env, vegetables, bills, clock, cache, acked>>

\* The batch insert and the loop over the returned rows.
InsertVegs(r) ==
    LET rec == req[r]
        newVegetables == InsertedRows(rec.batch, Len(vegetables)) IN
    /\ rec.kind = "postBill" /\ rec.pc = "insertVegs"
    /\ vegetables' = vegetables \o newVegetables
    /\ req' = [req EXCEPT ![r] =
                 Advance([rec EXCEPT
                            !.validatedItems = @ \o
                                [k \in 1..Len(newVegetables) |->
                                    ResolveNew(rec.body.items, newVegetables[k])],
                            !.ev = Append(@, "veg"),
                            !.created = { newVegetables[k].id : k \in 1..Len(newVegetables) }],
                         NextPc("insertVegs", FALSE))]
    /\ UNCHANGED <<env, bills, clock, cache, acked>>

\* Every entry carries the id of a catalogue row that has the entry's name.
NamesMatch(items) ==
    \A k \in 1..Len(items) :
        /\ items[k].id \in 1..Len(vegetables)
        /\ vegetables[items[k].id].name = items[k].name

\* The total, then insert(bills).values({...validated, items, total, date, createdAt}).
\* A provider row with id pid exists (bills.provider_id references providers.id).
ProviderExists(pid) == \E k \in 1..Len(providers) : providers[k].id = pid

\* The date column of the inserted row: date: new Date() comes after
\* ...validated in the values, so it replaces the date of the request.
BillDate(body, created) == created

InsertBill(r) ==
    LET rec == req[r]
        bill == [id |-> clock, providerId |-> rec.body.providerId,
                 providerName |-> rec.body.providerName, items |-> rec.validatedItems,
                 total |-> BillTotal(rec.validatedItems),
                 date |-> BillDate(rec.body, clock)] IN
    /\ rec.kind = "postBill" /\ rec.pc = "insertBill"
    /\ IF ProviderExists(rec.body.providerId)
       THEN /\ bills' = Append(bills, bill)
            /\ clock' = clock + 1
            /\ LET nxt == Advance([rec EXCEPT !.data = <<bill>>, !.ev = Append(@, "bill"),
                                              !.nameMatch = NamesMatch(rec.validatedItems)],
                                  NextPc("insertBill", FALSE)) IN
               /\ req' = [req EXCEPT ![r] = nxt]
               /\ acked' = AckedAfter(nxt)
       ELSE /\ req' = [req EXCEPT ![r] = Thrown(rec, "fkErr")]
            /\ UNCHANGED <<bills, clock, acked>>
    /\ UNCHANGED <<env, vegetables, cache>>

\* cache.del("bills:all")
DelBillsCache(r) ==
    LET rec == req[r]
        nxt == Advance([rec EXCEPT !.ev = Append(@, "del")], NextPc("cacheDel", FALSE)) IN
    /\ rec.kind = "postBill" /\ rec.pc = "cacheDel"
    /\ cache' = [cache EXCEPT !["bills:all"] = None]
    /\ req' = [req EXCEPT ![r] = nxt]
    /\ acked' = AckedAfter(nxt)
    /\ UNCHANGED <<env, vegetables, bills, clock>>

\* -------------------------------------------------------- GET /api/bills
\* A select without the orderBy: the rows in insertion order.
InsertionOrder(rows) == rows

RECURSIVE OrderByDateDesc(_)
\* select().from(bills).orderBy(desc(bills.date))
OrderByDateDesc(rows) ==
    IF rows = <<>> THEN <<>>
    ELSE LET k == CHOOSE a \in 1..Len(rows) : \A b \in 1..Len(rows) : rows[a].date >= rows[b].date
         IN <<rows[k]>> \o OrderByDateDesc([j \in 1..(Len(rows) - 1) |->
                                              IF j < k THEN rows[j] ELSE rows[j + 1]])

StartGetBills(r) ==
    /\ CanStart(r)
    /\ req' = [req EXCEPT ![r] =
                 [Idle EXCEPT !.kind = "getBills", !.pc = "cacheGet",
                              !.mustSee = acked, !.gone = Gone]]
    /\ UNCHANGED <<env, vegetables, bills, clock, cache, acked>>

\* cache.get("bills:all"); a cached value (an empty list too) is the answer.
GetBillsCache(r) ==
    LET rec == req[r]
        cached == cache["bills:all"] IN
    /\ rec.kind = "getBills" /\ rec.pc = "cacheGet"
    /\ req' = [req EXCEPT ![r] =
                 IF IsSome(cached) THEN Respond(rec, 200, Get(cached))
                 ELSE [rec EXCEPT !.pc = "select"]]
    /\ UNCHANGED <<env, vegetables, bills, clock, cache, acked>>

GetBillsSelect(r) ==
    LET rec == req[r] IN
    /\ rec.kind = "getBills" /\ rec.pc = "select"
    /\ req' = [req EXCEPT ![r] = [rec EXCEPT !.pc = "cacheSet", !.data = OrderByDateDesc(bills)]]
    /\ UNCHANGED <<env, vegetables, bills, clock, cache, acked>>

\* cache.set("bills:all", data); res.json(data)
GetBillsCacheSet(r) ==
    LET rec == req[r] IN
    /\ rec.kind = "getBills" /\ rec.pc = "cacheSet"
    /\ cache' = [cache EXCEPT !["bills:all"] = Entry(rec.data)]
    /\ req' = [req EXCEPT ![r] = Respond(rec, 200, rec.data)]
    /\ UNCHANGED <<env, vegetables, bills, clock, acked>>

\* ---------------------------------- POST /api/vegetables, PATCH /api/vegetables/:id
\* The ids a PATCH names.
PatchIds == 1..2

\* The path parameter is no uuid (id 0): the comparison with the uuid column
\* id is rejected by the store.
Malformed(id) == id = 0

\* The ids a PATCH names, a malformed one among them.
PatchIdsAll == {0} \cup PatchIds

\* fixedPrice: validated.fixedPrice?.toString(), written to numeric(10,2).
StoredFixedPrice(body) ==
    IF IsSome(body.fixedPrice) THEN Some(ToNumeric(Get(body.fixedPrice))) ELSE None

\* vegetableSchema.parse, then the throw when hasFixedPrice has no fixedPrice
\* (a plain Error: the error handler answers 500).
StartPostVeg(r, Bodies) ==
    /\ CanStart(r)
    /\ \E body \in Bodies :
         LET rec == [Idle EXCEPT !.kind = "postVeg", !.body = body,
                                 !.flags = IF ~ValidVeg(body) THEN {"badVeg"}
                                            ELSE IF body.hasFixedPrice /\ ~IsSome(body.fixedPrice)
                                            THEN {"noFixedPrice"} ELSE {}] IN
         req' = [req EXCEPT ![r] =
                   IF ~ValidVeg(body) THEN Respond(rec, ErrorStatus("ZodError"), <<>>)
                   ELSE IF body.hasFixedPrice /\ ~IsSome(body.fixedPrice)
                        THEN Respond(rec, ErrorStatus("Error"), <<>>)
                   ELSE [rec EXCEPT !.pc = "vegInsert"]]
    /\ UNCHANGED <<env, vegetables, bills, clock, cache, acked>>

\* insert(vegetables).values({...validated, fixedPrice}).returning()
PostVegInsert(r) ==
    LET rec == req[r]
        row == [id |-> Len(vegetables) + 1, name |-> rec.body.name,
                isAvailable |-> rec.body.isAvailable,
                hasFixedPrice |-> rec.body.hasFixedPrice,
                fixedPrice |-> StoredFixedPrice(rec.body)] IN
    /\ rec.kind = "postVeg" /\ rec.pc = "vegInsert"
    /\ vegetables' = Append(vegetables, row)
    /\ req' = [req EXCEPT ![r] = [rec EXCEPT !.pc = "vegCacheDel", !.data = <<row>>]]
    /\ UNCHANGED <<env, bills, clock, cache, acked>>

StartPatchVeg(r, Bodies, Ids) ==
    /\ CanStart(r)
    /\ \E body \in Bodies, id \in Ids :
         LET rec == [Idle EXCEPT !.kind = "patchVeg", !.body = body, !.vid = id,
                                 !.flags = IF ~ValidVeg(body) THEN {"badVeg"} ELSE {}] IN
         req' = [req EXCEPT ![r] =
                   IF ~ValidVeg(body) THEN Respond(rec, ErrorStatus("ZodError"), <<>>)
                   ELSE [rec EXCEPT !.pc = "patchSelect"]]
    /\ UNCHANGED <<env, vegetables, bills, clock, cache, acked>>

\* select().from(vegetables).where(eq(vegetables.id, id)); 404 when there is none.
PatchSelect(r) ==
    LET rec == req[r] IN
    /\ rec.kind = "patchVeg" /\ rec.pc = "patchSelect"
    /\ req' = [req EXCEPT ![r] =
                 IF Malformed(rec.vid) THEN Thrown(rec, "uuidErr")
                 ELSE IF rec.vid \in 1..Len(vegetables) THEN [rec EXCEPT !.pc = "patchUpdate"]
                 ELSE Respond(rec, 404, <<>>)]
    /\ UNCHANGED <<env, vegetables, bills, clock, cache, acked>>

\* An update done as a delete and an insert: the row comes back under a new id.
PatchedRowReinserted(old, body) ==
    [id |-> Len(vegetables) + 1, name |-> body.name, isAvailable |-> body.isAvailable,
     hasFixedPrice |-> body.hasFixedPrice, fixedPrice |-> old.fixedPrice]

\* set({...validated, fixedPrice: validated.fixedPrice?.toString()}): the row
\* after the update; an undefined fixedPrice leaves the column as it is.
PatchedRow(old, body) ==
    [id |-> old.id, name |-> body.name, isAvailable |-> body.isAvailable,
     hasFixedPrice |-> body.hasFixedPrice,
     fixedPrice |-> IF IsSome(body.fixedPrice) THEN StoredFixedPrice(body)
                    ELSE old.fixedPrice]

\* update(vegetables).set({...}).where(eq(vegetables.id, id)).returning()
PatchUpdate(r) ==
    LET rec == req[r]
        old == vegetables[rec.vid]
        row == PatchedRow(old, rec.body) IN
    /\ rec.kind = "patchVeg" /\ rec.pc = "patchUpdate"
    /\ vegetables' = [vegetables EXCEPT ![rec.vid] = row]
    /\ req' = [req EXCEPT ![r] = [rec EXCEPT !.pc = "vegCacheDel", !.data = <<row>>]]
    /\ UNCHANGED <<env, bills, clock, cache, acked>>

\* cache.del("vegetables:all"), then 201 (POST) or 200 (PATCH) with the row.
VegCacheDel(r) ==
    LET rec == req[r] IN
    /\ rec.kind \in {"postVeg", "patchVeg"} /\ rec.pc = "vegCacheDel"
    /\ cache' = [cache EXCEPT !["vegetables:all"] = None]
    /\ req' = [req EXCEPT ![r] =
                 Respond(rec, IF rec.kind = "postVeg" THEN 201 ELSE 200, rec.data)]
    /\ UNCHANGED <<env, vegetables, bills, clock, acked>>

\* -------------------------------------------------- GET /api/bills/:id
\* The ids a GET /api/bills/:id names.
BillIds == 0..2

StartGetBill(r) ==
    /\ CanStart(r)
    /\ \E id \in BillIds :
         req' = [req EXCEPT ![r] =
                   [Idle EXCEPT !.kind = "getBill", !.pc = "billCacheGet", !.vid = id,
                                !.gone = Gone]]
    /\ UNCHANGED <<env, vegetables, bills, clock, cache, acked>>

\* cache.get(`bill:${id}`); a cached bill is the answer.
BillCacheGet(r) ==
    LET rec == req[r]
        cached == cache[BillKey(rec.vid)] IN
    /\ rec.kind = "getBill" /\ rec.pc = "billCacheGet"
    /\ req' = [req EXCEPT ![r] =
                 IF IsSome(cached) THEN Respond(rec, 200, <<Get(cached)>>)
                 ELSE [rec EXCEPT !.pc = "billSelect"]]
    /\ UNCHANGED <<env, vegetables, bills, clock, cache, acked>>

\* select().from(bills).where(eq(bills.id, id)); 404 when there is none.
BillSelect(r) ==
    LET rec == req[r]
        found == { k \in 1..Len(bills) : bills[k].id = rec.vid } IN
    /\ rec.kind = "getBill" /\ rec.pc = "billSelect"
    /\ req' = [req EXCEPT ![r] =
                 IF Malformed(rec.vid) THEN Thrown(rec, "uuidErr")
                 ELSE IF found = {} THEN Respond(rec, 404, <<>>)
                 ELSE [rec EXCEPT !.pc = "billCacheSet",
                                  !.data = <<bills[CHOOSE k \in found : TRUE]>>]]
    /\ UNCHANGED <<env, vegetables, bills, clock, cache, acked>>

\* cache.set(`bill:${id}`, bill); res.json(bill)
BillCacheSet(r) ==
    LET rec == req[r] IN
    /\ rec.kind = "getBill" /\ rec.pc = "billCacheSet"
    /\ cache' = [cache EXCEPT ![BillKey(rec.vid)] = Entry(rec.data[1])]
    /\ req' = [req EXCEPT ![r] = Respond(rec, 200, rec.data)]
    /\ UNCHANGED <<env, vegetables, bills, clock, acked>>

\* ------------------------------------------ DELETE /api/bills/test-provider
\* delete(bills).where(eq(bills.providerName, name)): the rows that stay.
DeleteAll(rows, name) == <<>>

DeleteWhere(rows, name) == SelectSeq(rows, LAMBDA b : b.providerName # name)

\* The route exists in routes/bill.routes.ts only; index.ts answers 404.
StartDeleteTest(r) ==
    /\ CanStart(r)
    /\ req' = [req EXCEPT ![r] =
                 IF server = "routes"
                 THEN [Idle EXCEPT !.kind = "deleteTest", !.pc = "delete"]
                 ELSE Respond([Idle EXCEPT !.kind = "deleteTest"], 404, <<>>)]
    /\ UNCHANGED <<env, vegetables, bills, clock, cache, acked>>

\* delete(bills).where(eq(bills.providerName, "Test")).returning()
DeleteBills(r) ==
    LET rec == req[r] IN
    /\ rec.kind = "deleteTest" /\ rec.pc = "delete"
    /\ bills' = DeleteWhere(bills, "Test")
    /\ req' = [req EXCEPT ![r] =
                 [rec EXCEPT !.pc = "deleteCacheDel",
                             !.data = SelectSeq(bills, LAMBDA b : b.providerName = "Test")]]
    /\ UNCHANGED <<env, vegetables, clock, cache, acked>>

\* await cache.del("bills:all"); then forEach starts one cache.del per
\* deleted bill without awaiting it, and the response is sent.
DeleteCacheDel(r) ==
    LET rec == req[r] IN
    /\ rec.kind = "deleteTest" /\ rec.pc = "deleteCacheDel"
    /\ cache' = [cache EXCEPT !["bills:all"] = None]
    /\ req' = [req EXCEPT ![r] =
                 [Respond(rec, 200, rec.data) EXCEPT
                    !.dels = { BillKey(rec.data[k].id) : k \in 1..Len(rec.data) }]]
    /\ UNCHANGED <<env, vegetables, bills, clock, acked>>

\* One of the cache.del calls that were not awaited completes.
DetachedDel(r) ==
    /\ \E k \in req[r].dels :
         /\ cache' = [cache EXCEPT ![k] = None]
         /\ req' = [req EXCEPT ![r].dels = @ \ {k}]
    /\ UNCHANGED <<env, vegetables, bills, clock, acked>>

\* The response of a POST /api/bills was sent long ago: nothing of the
\* request is left in the server.
Forget(r) ==
    /\ req[r].kind = "postBill" /\ req[r].pc = "done"
    /\ clock <= MaxSeq
    /\ req' = [req EXCEPT ![r] = Idle]
    /\ UNCHANGED <<env, vegetables, bills, clock, cache, acked>>

\* ------------------------------------------------------ POST /api/providers
ProviderNames == {"Test", "Other"}

\* providerSchema.parse(req.body)
StartPostProv(r) ==
    /\ CanStart(r)
    /\ \E name \in ProviderNames :
         req' = [req EXCEPT ![r] =
                   [Idle EXCEPT !.kind = "postProv", !.pc = "provInsert",
                                !.body = [name |-> name]]]
    /\ UNCHANGED <<env, vegetables, bills, clock, cache, acked>>

\* insert(providers).values(validated).returning()
ProvInsert(r) ==
    LET rec == req[r]
        row == [id |-> Len(providers) + 1, name |-> rec.body.name] IN
    /\ rec.kind = "postProv" /\ rec.pc = "provInsert"
    /\ providers' = Append(providers, row)
    /\ req' = [req EXCEPT ![r] = [rec EXCEPT !.pc = "provCacheDel", !.data = <<row>>]]
    /\ UNCHANGED <<server, now, requests, passed, rejected, vegetables, bills, clock, cache, acked>>

\* cache.del("providers:all"), then 201 with the row.
ProvCacheDel(r) ==
    LET rec == req[r] IN
    /\ rec.kind = "postProv" /\ rec.pc = "provCacheDel"
    /\ cache' = [cache EXCEPT !["providers:all"] = None]
    /\ req' = [req EXCEPT ![r] = Respond(rec, 201, rec.data)]
    /\ UNCHANGED <<env, vegetables, bills, clock, acked>>

\* ------------------------------------ GET /api/vegetables, GET /api/providers
ListKinds == {"getVegs", "getProvs"}

\* A handler that uses the key of the bills for every list.
ListKeyBills(kind) == "bills:all"

ListKey(kind) == IF kind = "getVegs" THEN "vegetables:all" ELSE "providers:all"

\* select().from(vegetables) / select().from(providers)
ListRows(kind) == IF kind = "getVegs" THEN vegetables ELSE providers

\* The catalogue rows that bills answered 201 have created.
CreatedByBills ==
    UNION { req[s].created : s \in { t \in Req : req[t].kind = "postBill"
                                                  /\ req[t].pc = "done"
                                                  /\ req[t].status = 201 } }

StartGetList(r) ==
    /\ CanStart(r)
    /\ \E kind \in ListKinds :
         req' = [req EXCEPT ![r] =
                   [Idle EXCEPT !.kind = kind, !.pc = "listCacheGet",
                                !.mustSee = IF kind = "getVegs" THEN CreatedByBills ELSE {}]]
    /\ UNCHANGED <<env, vegetables, bills, clock, cache, acked>>

\* cache.get(key); a cached list (an empty one too) is the answer.
ListCacheGet(r) ==
    LET rec == req[r]
        cached == cache[ListKey(rec.kind)] IN
    /\ rec.kind \in ListKinds /\ rec.pc = "listCacheGet"
    /\ req' = [req EXCEPT ![r] =
                 IF IsSome(cached) THEN Respond(rec, 200, Get(cached))
                 ELSE [rec EXCEPT !.pc = "listSelect"]]
    /\ UNCHANGED <<env, vegetables, bills, clock, cache, acked>>

ListSelect(r) ==
    LET rec == req[r] IN
    /\ rec.kind \in ListKinds /\ rec.pc = "listSelect"
    /\ req' = [req EXCEPT ![r] = [rec EXCEPT !.pc = "listCacheSet", !.data = ListRows(rec.kind)]]
    /\ UNCHANGED <<env, vegetables, bills, clock, cache, acked>>

\* cache.set(key, list); res.json(list)
ListCacheSet(r) ==
    LET rec == req[r] IN
    /\ rec.kind \in ListKinds /\ rec.pc = "listCacheSet"
    /\ cache' = [cache EXCEPT ![ListKey(rec.kind)] = Entry(rec.data)]
    /\ req' = [req EXCEPT ![r] = Respond(rec, 200, rec.data)]
    /\ UNCHANGED <<env, vegetables, bills, clock, acked>>

\* ------------------------------------------------------------ cache expiry
\* One tick passes: Redis drops the entries whose time is up.
Elapse ==
    /\ \E k \in CacheKeys : IsSome(cache[k]) /\ cache[k][2] >= 1
    /\ cache' = [k \in CacheKeys |->
                   IF IsSome(cache[k]) /\ cache[k][2] = 1 THEN None
                   ELSE IF IsSome(cache[k]) /\ cache[k][2] > 1
                        THEN <<cache[k][1], cache[k][2] - 1>>
                   ELSE cache[k]]
    /\ UNCHANGED <<env, vegetables, bills, clock, req, acked>>

\* ------------------------------------------------------------ rate limiter
\* A limiter that moves the window start on but keeps the count.
CurrentKeepsCount ==
    LET current == IF IsSome(requests) THEN Get(requests)
                   ELSE [count |-> 0, timestamp |-> now] IN
    IF current.timestamp < now - windowMs
    THEN [current EXCEPT !.timestamp = now]
    ELSE current

\* requests.get(ip) || { count: 0, timestamp: now }, then the reset when the
\* entry's timestamp is older than the window.
Current ==
    LET current == IF IsSome(requests) THEN Get(requests)
                   ELSE [count |-> 0, timestamp |-> now] IN
    IF current.timestamp < now - windowMs
    THEN [count |-> 0, timestamp |-> now]
    ELSE current

\* if (current.count >= max), with a comparison that lets one more through.
LimitedAbove == Current.count > max

\* if (current.count >= max)
Limited == Current.count >= max

\* What the middleware leaves in the Map when it answers 429: the reset above
\* writes into the object that the Map holds, requests.set is not reached.
Kept == IF IsSome(requests) THEN Some(Current) ELSE None

\* current.count++; requests.set(ip, current)
Counted == Some([Current EXCEPT !.count = @ + 1])

\* The middleware of GET /api/bills for one client address: 429 when the
\* count has reached max, else count++, requests.set(ip, current), next().
RateLimit ==
    /\ IF Limited
       THEN /\ requests' = Kept
            /\ rejected' = rejected \cup {now}
            /\ UNCHANGED passed
       ELSE /\ requests' = Counted
            /\ passed' = Append(passed, now)
            /\ UNCHANGED rejected
    /\ UNCHANGED <<server, providers, now, vegetables, bills, clock, cache, req, acked>>

\* GET /api/bills: billRateLimiter, then the handler. A request that the
\* middleware answers 429 never enters the handler.
billRateLimiter(r) ==
    /\ CanStart(r)
    /\ IF Limited
       THEN /\ requests' = Kept
            /\ rejected' = rejected \cup {now}
            /\ req' = [req EXCEPT ![r] =
                         Respond([Idle EXCEPT !.kind = "getBills"], 429, <<>>)]
            /\ UNCHANGED passed
       ELSE /\ requests' = Counted
            /\ passed' = Append(passed, now)
            /\ req' = [req EXCEPT ![r] =
                         [Idle EXCEPT !.kind = "getBills", !.pc = "cacheGet",
                                      !.mustSee = acked, !.gone = Gone]]
            /\ UNCHANGED rejected
    /\ UNCHANGED <<server, providers, now, vegetables, bills, clock, cache, acked>>

\* Date.now() moves on.
TickMs ==
    /\ now < MaxTime
    /\ now' = now + 1
    /\ UNCHANGED <<server, providers, requests, passed, rejected, vegetables, bills,
                   clock, cache, req, acked>>

\* ----------------------------------------------------------------- failures
\* The Redis call of cache.get / set / del rejects: the catch block logs the
\* error and the method returns (null for get), so the handler goes where it
\* goes after a call that succeeded (nxt).
SwallowedRethrown(nxt) ==
    Respond([nxt EXCEPT !.flags = @ \cup {"cacheErr"}], ErrorStatus("Error"), <<>>)

Swallowed(nxt) == [nxt EXCEPT !.flags = @ \cup {"cacheErr"}]

\* The select of one pass of the reconciler's loop rejects.
LookupFails(r) ==
    /\ req[r].kind = "postBill" /\ req[r].pc = "lookup"
    /\ req' = [req EXCEPT ![r] = Thrown(req[r], "lookupErr")]
    /\ UNCHANGED <<env, vegetables, bills, clock, cache, acked>>

\* The reconciler's batch insert rejects.
InsertVegsFails(r) ==
    /\ req[r].kind = "postBill" /\ req[r].pc = "insertVegs"
    /\ req' = [req EXCEPT ![r] = Thrown(req[r], "vegsErr")]
    /\ UNCHANGED <<env, vegetables, bills, clock, cache, acked>>

\* insert(bills) rejects.
InsertBillFails(r) ==
    /\ req[r].kind = "postBill" /\ req[r].pc = "insertBill"
    /\ req' = [req EXCEPT ![r] = Thrown(req[r], "billErr")]
    /\ UNCHANGED <<env, vegetables, bills, clock, cache, acked>>

\* redis.del("bills:all") rejects inside cache.del.
DelBillsCacheFails(r) ==
    LET rec == req[r]
        nxt == Swallowed(Advance([rec EXCEPT !.ev = Append(@, "del")],
                                 NextPc("cacheDel", FALSE))) IN
    /\ rec.kind = "postBill" /\ rec.pc = "cacheDel"
    /\ req' = [req EXCEPT ![r] = nxt]
    /\ acked' = AckedAfter(nxt)
    /\ UNCHANGED <<env, vegetables, bills, clock, cache>>

\* redis.get("bills:all") rejects inside cache.get: null is returned.
GetBillsCacheFails(r) ==
    /\ req[r].kind = "getBills" /\ req[r].pc = "cacheGet"
    /\ req' = [req EXCEPT ![r] = Swallowed([req[r] EXCEPT !.pc = "select"])]
    /\ UNCHANGED <<env, vegetables, bills, clock, cache, acked>>

\* select().from(bills) rejects.
GetBillsSelectFails(r) ==
    /\ req[r].kind = "getBills" /\ req[r].pc = "select"
    /\ req' = [req EXCEPT ![r] = Thrown(req[r], "selectErr")]
    /\ UNCHANGED <<env, vegetables, bills, clock, cache, acked>>

\* redis.set("bills:all", data) rejects inside cache.set.
GetBillsCacheSetFails(r) ==
    /\ req[r].kind = "getBills" /\ req[r].pc = "cacheSet"
    /\ req' = [req EXCEPT ![r] = Swallowed(Respond(req[r], 200, req[r].data))]
    /\ UNCHANGED <<env, vegetables, bills, clock, cache, acked>>

\* The store call of POST /api/vegetables or PATCH /api/vegetables/:id rejects.
VegStoreFails(r) ==
    /\ req[r].kind \in {"postVeg", "patchVeg"}
    /\ req[r].pc \in {"vegInsert", "patchSelect", "patchUpdate"}
    /\ req' = [req EXCEPT ![r] = Thrown(req[r], "vegErr")]
    /\ UNCHANGED <<env, vegetables, bills, clock, cache, acked>>

\* redis.del("vegetables:all") rejects inside cache.del.
VegCacheDelFails(r) ==
    LET rec == req[r] IN
    /\ rec.kind \in {"postVeg", "patchVeg"} /\ rec.pc = "vegCacheDel"
    /\ req' = [req EXCEPT ![r] =
                 Swallowed(Respond(rec, IF rec.kind = "postVeg" THEN 201 ELSE 200, rec.data))]
    /\ UNCHANGED <<env, vegetables, bills, clock, cache, acked>>

\* ---------------------------------------------------------- specifications
BillStep(r) ==
    \/ Lookup(r)
    \/ InsertVegs(r)
    \/ InsertBill(r)
    \/ DelBillsCache(r)

GetStep(r) ==
    \/ GetBillsCache(r)
    \/ GetBillsSelect(r)
    \/ GetBillsCacheSet(r)

VegStep(r) ==
    \/ PostVegInsert(r)
    \/ PatchSelect(r)
    \/ PatchUpdate(r)
    \/ VegCacheDel(r)

\* Requests arrive at any time and are handled concurrently.
Next ==
    \E r \in Req :
        \/ StartPostBill(r, BillBodies(RaceItems))
        \/ StartGetBills(r)
        \/ StartPostVeg(r, RaceVegBodies)
        \/ StartPatchVeg(r, RaceVegBodies, PatchIds)
        \/ BillStep(r)
        \/ GetStep(r)
        \/ VegStep(r)

Spec == Init /\ [][Next]_vars

\* One request at a time: the next one arrives when the last one was answered.
Quiet(r) == r <= MaxSeq /\ \A s \in Req : req[s].pc \in {"idle", "done"}

NextSeq ==
    \E r \in Req :
        \/ Quiet(r) /\ StartPostBill(r, BillBodies(RichItems))
        \/ Quiet(r) /\ StartPostVeg(r, RichVegBodies)
        \/ Quiet(r) /\ StartPatchVeg(r, RichVegBodies, PatchIdsAll)
        \/ BillStep(r)
        \/ VegStep(r)

SpecSeq == Init /\ [][NextSeq]_vars

FailStep(r) ==
    \/ LookupFails(r)
    \/ InsertVegsFails(r)
    \/ InsertBillFails(r)
    \/ DelBillsCacheFails(r)
    \/ GetBillsCacheFails(r)
    \/ GetBillsSelectFails(r)
    \/ GetBillsCacheSetFails(r)
    \/ VegStoreFails(r)
    \/ VegCacheDelFails(r)

\* No request is being handled.
Calm == \A s \in Req : req[s].pc \in {"idle", "done"}

\* One request at a time, and any store or cache call may fail.
NextFail ==
    \E r \in Req :
        \/ Calm /\ StartPostBill(r, BillBodies(RaceItems))
        \/ Calm /\ StartGetBills(r)
        \/ Calm /\ StartPostVeg(r, RaceVegBodies)
        \/ Calm /\ StartPatchVeg(r, RaceVegBodies, PatchIds)
        \/ BillStep(r)
        \/ GetStep(r)
        \/ VegStep(r)
        \/ FailStep(r)

SpecFail == Init /\ [][NextFail]_vars

\* Submissions that vary the provider and the date: a provider id that may
\* not be registered, a name that may not be the provider's, a date in the past.
AdminBodies ==
    { Bill(pid, pname, its, d) :
        pid \in 1..2, pname \in ProviderNames, its \in SeqsUpTo(RaceItems, 1),
        d \in {None, Some(0)} }

\* One request at a time: providers, bills with their provider and date, the
\* read of one bill and the bulk delete.
NextAdmin ==
    \E r \in Req :
        \/ Calm /\ StartPostBill(r, AdminBodies)
        \/ Calm /\ StartPostProv(r)
        \/ Calm /\ StartGetBill(r)
        \/ Calm /\ StartDeleteTest(r)
        \/ BillStep(r)
        \/ ProvInsert(r)
        \/ ProvCacheDel(r)
        \/ BillCacheGet(r)
        \/ BillSelect(r)
        \/ BillCacheSet(r)
        \/ DeleteBills(r)
        \/ DeleteCacheDel(r)
        \/ DetachedDel(r)

SpecAdmin == Init /\ [][NextAdmin]_vars

\* One request at a time: the three cached lists and the writes to their tables.
NextLists ==
    \E r \in Req :
        \/ Calm /\ StartGetList(r)
        \/ Calm /\ StartGetBills(r)
        \/ Calm /\ StartPostBill(r, BillBodies(RaceItems))
        \/ Calm /\ StartPostProv(r)
        \/ BillStep(r)
        \/ GetStep(r)
        \/ ProvInsert(r)
        \/ ProvCacheDel(r)
        \/ ListCacheGet(r)
        \/ ListSelect(r)
        \/ ListCacheSet(r)

SpecLists == Init /\ [][NextLists]_vars

\* One request at a time, cache deletes that may fail, and time that passes.
NextTtl ==
    \/ \E r \in Req :
          \/ Calm /\ StartGetBills(r)
          \/ Calm /\ StartPostBill(r, BillBodies(RaceItems))
          \/ BillStep(r)
          \/ GetStep(r)
          \/ DelBillsCacheFails(r)
    \/ Elapse

SpecTtl == Init /\ [][NextTtl]_vars

\* The rate limiter of GET /api/bills and its clock.
NextRate == RateLimit \/ TickMs

SpecRate == Init /\ [][NextRate]_vars

\* A store or cache call of POST /api/bills fails.
BillFails(r) ==
    \/ LookupFails(r)
    \/ InsertVegsFails(r)
    \/ InsertBillFails(r)
    \/ DelBillsCacheFails(r)

\* POST /api/bills only: MaxSeq requests that arrive at any time and are
\* handled concurrently, and any store or cache call may fail.
NextLive ==
    \E r \in Req :
        \/ r <= MaxSeq /\ StartPostBill(r, BillBodies(LiveItems))
        \/ BillStep(r)
        \/ BillFails(r)

\* Every call a handler awaits returns or fails in the end: the step that
\* follows the call, or the failure of the call, is taken.
SpecLive ==
    /\ Init /\ [][NextLive]_vars
    /\ \A r \in Req : WF_vars(BillStep(r) \/ BillFails(r))

\* Bills are created one request at a time; the reads of the bills and the
\* bulk delete arrive at any time and are handled concurrently.
NextSweep ==
    \E r \in Req :
        \/ Calm /\ StartPostBill(r, BillBodies(RaceItems))
        \/ StartGetBills(r)
        \/ StartGetBill(r)
        \/ StartDeleteTest(r)
        \/ BillStep(r)
        \/ GetStep(r)
        \/ BillCacheGet(r)
        \/ BillSelect(r)
        \/ BillCacheSet(r)
        \/ DeleteBills(r)
        \/ DeleteCacheDel(r)
        \/ DetachedDel(r)
        \/ Forget(r)

SpecSweep == Init /\ [][NextSweep]_vars

\* GET /api/bills behind its rate limiter: the requests of one client
\* address, handled concurrently, while time passes.
NextGate ==
    \/ \E r \in Req :
          \/ billRateLimiter(r)
          \/ GetStep(r)
    \/ TickMs

SpecGate == Init /\ [][NextGate]_vars

\* ------------------------------------------------------------------ claims
Count(S) == Cardinality(S)

PostBills == { r \in Req : req[r].kind = "postBill" }

\* The bill row of request r is persisted and its response is pending.
Persisted(r) == req[r].kind = "postBill" /\ req[r].pc = "cacheDel" /\ req[r].data # <<>>

\* The positions of the entries named n in a list of line items.
Named(items, n) == { k \in 1..Len(items) : items[k].name = n }

\* C1: in every reachable state the catalogue holds at most one row per
\* distinct name.
C1_UniqueNames ==
    \A a, b \in 1..Len(vegetables) :
        vegetables[a].name = vegetables[b].name => a = b

\* C2: two concurrent POST /api/bills that both name one vegetable not yet in
\* the catalogue (one line each, no other writer of the catalogue) leave
\* exactly one row with that name, and both are answered 201.
C2_ConcurrentCreation ==
    \A r1, r2 \in PostBills :
        (/\ r1 # r2
         /\ req[r1].pc = "done" /\ req[r2].pc = "done"
         /\ \A s \in Req : req[s].kind \notin {"postVeg", "patchVeg"})
        => \A n \in req[r1].unseen \cap req[r2].unseen :
              (/\ req[r1].status = 201 => Count(Named(req[r1].resp[1].items, n)) = 1
               /\ req[r2].status = 201 => Count(Named(req[r2].resp[1].items, n)) = 1)
              => /\ Count(RowsNamed(n)) = 1
                 /\ req[r1].status = 201
                 /\ req[r2].status = 201

\* C3: a GET /api/bills that starts after a POST /api/bills was answered 201
\* returns a list that contains the new bill.
C3_ReadAfterCreate ==
    \A g \in Req :
        (req[g].kind = "getBills" /\ req[g].pc = "done")
        => req[g].mustSee \subseteq { req[g].resp[k].id : k \in 1..Len(req[g].resp) }

\* C4: several line items of one submission sharing a name that is not yet in
\* the catalogue get exactly one new catalogue row, and every one of them
\* resolves to the id of that row.
C4_OneRowPerUnseenName ==
    \A r \in Req :
        Persisted(r) =>
            \A n \in req[r].unseen :
                Count(Named(req[r].body.items, n)) > 1
                => /\ Count(RowsNamed(n)) = 1
                   /\ \A k \in Named(req[r].data[1].items, n) :
                         req[r].data[1].items[k].id \in RowsNamed(n)

\* C5: the persisted bill has one entry per submitted line item, and each
\* entry carries that line's own quantity and its own item_total (the lines
\* and the entries with a given name and quantity are equally many).
C5_OneEntryPerLine ==
    \A r \in Req :
        Persisted(r) =>
            LET lines == req[r].body.items
                entries == req[r].data[1].items IN
            /\ Len(entries) = Len(lines)
            /\ \A j \in 1..Len(lines) :
                  Count({ k \in 1..Len(lines) :
                            /\ lines[k].name = lines[j].name
                            /\ lines[k].quantity = lines[j].quantity })
                  = Count({ k \in 1..Len(entries) :
                            /\ entries[k].name = lines[j].name
                            /\ entries[k].quantity = lines[j].quantity
                            /\ entries[k].item_total
                                 = ItemTotal(entries[k].price, entries[k].quantity) })

\* C6: a line item resolved to a catalogue row with hasFixedPrice = true and
\* fixedPrice = f is stored with price f and item_total = round(f x quantity, 2).
C6_FixedPriceWins ==
    \A r \in Req :
        Persisted(r) =>
            \A k \in 1..Len(req[r].data[1].items) :
                LET e == req[r].data[1].items[k]
                    veg == vegetables[e.id] IN
                (veg.hasFixedPrice /\ IsSome(veg.fixedPrice))
                => /\ e.price = FromNumeric(Get(veg.fixedPrice))
                   /\ e.item_total = RoundHalfAway(FromNumeric(Get(veg.fixedPrice)) * e.quantity)

\* C7: the total of every persisted bill is the sum of the item_total values
\* of its persisted items, rounded to 2 decimals, whatever total the caller sent.
C7_TotalIsSum ==
    \A b \in 1..Len(bills) :
        bills[b].total =
            RoundHalfAway(SumSeq([k \in 1..Len(bills[b].items) |->
                                    bills[b].items[k].item_total]) * CentMills)

\* A bill of two lines whose total (6.00 + 4.00) is not the total the caller sent.
C7_Witness ==
    \E b \in 1..Len(bills) :
        /\ Len(bills[b].items) = 2
        /\ bills[b].items[1].item_total = 600
        /\ bills[b].items[2].item_total = 400
        /\ bills[b].total = 1000

\* C8: every persisted item_total is the price times the quantity rounded
\* half away from zero to 2 decimals, and is never negative.
C8_ItemTotalRounded ==
    \A b \in 1..Len(bills) :
        \A k \in 1..Len(bills[b].items) :
            LET e == bills[b].items[k] IN
            /\ e.item_total = RoundHalfAway(e.price * e.quantity)
            /\ e.item_total >= 0

\* C9: two bills submitted one after the other that both name a vegetable
\* unseen before the first leave exactly one catalogue row with that name,
\* and the entries of both bills with that name carry the id of that row.
C9_SequentialIdempotent ==
    \A r1, r2 \in PostBills :
        (/\ r1 < r2
         /\ req[r1].pc = "done" /\ req[r1].status = 201
         /\ req[r2].pc = "done" /\ req[r2].status = 201)
        => \A n \in req[r1].unseen :
              Named(req[r2].resp[1].items, n) # {}
              => /\ Count(RowsNamed(n)) = 1
                 /\ \A r \in {r1, r2} :
                       \A k \in Named(req[r].resp[1].items, n) :
                          req[r].resp[1].items[k].id \in RowsNamed(n)

\* C10: within one POST /api/bills call the catalogue inserts complete
\* before the bill row is inserted, and the bill row is inserted before the
\* key bills:all is deleted.
C10_CallOrder ==
    \A r \in PostBills :
        /\ req[r].ev \in { <<>>, <<"veg">>, <<"veg", "bill">>, <<"veg", "bill", "del">>,
                          <<"bill">>, <<"bill", "del">> }
        /\ (req[r].batch # <<>> /\ req[r].ev = <<>>) => req[r].data = <<>>
        /\ req[r].data # <<>> =>
              \E b \in 1..Len(bills) : bills[b] = req[r].data[1]

\* A call that inserted catalogue rows, then its bill, then deleted the key.
C10_Witness ==
    \E r \in PostBills :
        /\ req[r].ev = <<"veg", "bill", "del">>
        /\ req[r].status = 201

\* The call e is among the calls a request has issued.
HasEv(ev, e) == \E k \in 1..Len(ev) : ev[k] = e

\* C11: a POST /api/bills call deletes bills:all only after its bill insert
\* succeeded; a call that fails in validation, reconciliation or the bill
\* insert has issued no delete, and no step of a call that has not inserted
\* its bill changes the cache.
C11_DelAfterInsert ==
    /\ [](\A r \in PostBills :
            /\ \A k \in 1..Len(req[r].ev) :
                  req[r].ev[k] = "del" => \E j \in 1..(k - 1) : req[r].ev[j] = "bill"
            /\ (req[r].pc = "done" /\ req[r].status # 201) => ~HasEv(req[r].ev, "del"))
    /\ [][\A r \in Req :
            (/\ req'[r] # req[r]
             /\ req'[r].kind = "postBill"
             /\ ~HasEv(req'[r].ev, "bill"))
            => cache' = cache]_vars

\* A call whose bill insert failed while bills:all held a list: the list is
\* still cached.
C11_Witness ==
    \E r \in PostBills :
        /\ req[r].pc = "done" /\ req[r].status = 500
        /\ "billErr" \in req[r].flags
        /\ IsSome(cache["bills:all"])

\* C12: a POST /api/bills call whose reconciliation fails (a lookup or the
\* batch insert) ends in an error without inserting a bill, and every item of
\* every persisted bill carries a resolved vegetable id.
C12_ReconcileFailureAborts ==
    /\ \A r \in PostBills :
          (req[r].flags \cap {"lookupErr", "vegsErr"} # {})
          => /\ req[r].pc = "done"
             /\ req[r].status = 500
             /\ req[r].ev = <<>>
    /\ \A b \in 1..Len(bills) :
          \A k \in 1..Len(bills[b].items) :
              bills[b].items[k].id \in 1..Len(vegetables)

\* A call whose batch insert failed, after another call persisted a bill.
C12_Witness ==
    /\ bills # <<>>
    /\ \E r \in PostBills :
          /\ "vegsErr" \in req[r].flags
          /\ req[r].pc = "done"

\* C13: when the bill insert fails after the reconciler created catalogue
\* rows, the rows stay in the catalogue, no bill row is added and the call is
\* answered 500.
C13_NoRollback ==
    /\ [](\A r \in PostBills :
            "billErr" \in req[r].flags
            => /\ req[r].pc = "done" /\ req[r].status = 500
               /\ ~HasEv(req[r].ev, "bill")
               /\ req[r].created \subseteq
                     { vegetables[k].id : k \in 1..Len(vegetables) })
    /\ [][\A r \in Req :
            ("billErr" \in req'[r].flags /\ "billErr" \notin req[r].flags)
            => /\ bills' = bills
               /\ vegetables' = vegetables]_vars

\* A call that created a catalogue row and whose bill insert failed.
C13_Witness ==
    \E r \in PostBills :
        /\ "billErr" \in req[r].flags
        /\ req[r].ev = <<"veg">>
        /\ req[r].created # {}
        /\ req[r].status = 500

\* C14: a POST /api/bills with an item whose quantity or price is zero or
\* negative is answered 400 before any store write: the catalogue, the bill
\* table and the cache are as they were.
C14_RejectedBeforeWrite ==
    /\ [](\A r \in PostBills :
            "badItem" \in req[r].flags
            => /\ req[r].pc = "done" /\ req[r].status = 400
               /\ req[r].ev = <<>>
               /\ req[r].created = {})
    /\ [][\A r \in Req :
            (req'[r] # req[r] /\ "badItem" \in req'[r].flags)
            => UNCHANGED <<vegetables, bills, cache>>]_vars

\* A rejected submission that arrived when the catalogue was not empty.
C14_Witness ==
    /\ vegetables # <<>>
    /\ \E r \in PostBills :
          /\ "badItem" \in req[r].flags
          /\ req[r].status = 400

\* C15: in every reachable state every catalogue row with hasFixedPrice =
\* true has a non-null, strictly positive fixedPrice.
C15_FixedPriceSet ==
    \A k \in 1..Len(vegetables) :
        vegetables[k].hasFixedPrice
        => /\ IsSome(vegetables[k].fixedPrice)
           /\ Get(vegetables[k].fixedPrice) > 0

\* C16: POST /api/vegetables with hasFixedPrice = true and no fixedPrice is
\* answered 400 (and has issued no insert).
C16_MissingFixedPrice400 ==
    \A r \in Req :
        (req[r].kind = "postVeg" /\ "noFixedPrice" \in req[r].flags)
        => /\ req[r].pc = "done"
           /\ req[r].status = 400

\* C17: a cache failure never fails a request.  A call that met only cache
\* failures is answered with its success status; a GET /api/bills whose
\* cache.get failed is served the rows of the store; and the step in which a
\* cache call fails leaves the store as it was.
C17_CacheFailureSwallowed ==
    /\ [](\A r \in Req :
            (/\ req[r].pc = "done"
             /\ "cacheErr" \in req[r].flags
             /\ req[r].flags \subseteq {"cacheErr"})
            => /\ req[r].status = (IF req[r].kind \in {"postBill", "postVeg"}
                                  THEN 201 ELSE 200)
               /\ req[r].resp # <<>> \/ req[r].kind = "getBills")
    /\ [][\A r \in Req :
            ("cacheErr" \in req'[r].flags /\ "cacheErr" \notin req[r].flags)
            => /\ vegetables' = vegetables
               /\ bills' = bills]_vars
    /\ [][\A r \in Req :
            (/\ req[r].kind = "getBills" /\ req[r].pc # "done"
             /\ req'[r].pc = "done" /\ req'[r].status = 200
             /\ "cacheErr" \in req[r].flags)
            => req'[r].resp = OrderByDateDesc(bills)]_vars

\* A GET /api/bills whose cache.get failed while bills:all held a list that
\* differs from the rows of the store.
C17_Witness ==
    \E r \in Req :
        /\ req[r].kind = "getBills" /\ req[r].pc = "done"
        /\ req[r].flags = {"cacheErr"}
        /\ req[r].resp # <<>>
        /\ IsSome(cache["bills:all"])
        /\ Get(cache["bills:all"]) # req[r].resp

\* C18: every line item of every persisted bill carries the id of an
\* existing catalogue row, and when the bill was inserted the row had the
\* line item's name.
C18_ItemsReferToRows ==
    /\ \A b \in 1..Len(bills) :
          \A k \in 1..Len(bills[b].items) :
              bills[b].items[k].id \in 1..Len(vegetables)
    /\ \A r \in PostBills : req[r].nameMatch

\* C19: for a submission mixing names already in the catalogue with names
\* not yet in it, the i-th item of the persisted bill is the i-th line item
\* the caller submitted.
C19_SubmissionOrder ==
    \A r \in Req :
        (/\ Persisted(r)
         /\ req[r].unseen # {}
         /\ Names(req[r].body.items) \ req[r].unseen # {}) =>
            LET lines == req[r].body.items
                entries == req[r].data[1].items IN
            /\ Len(entries) = Len(lines)
            /\ \A k \in 1..Len(lines) :
                  /\ entries[k].name = lines[k].name
                  /\ entries[k].quantity = lines[k].quantity

\* C20: every persisted bill has a strictly positive total and every one of
\* its line items a strictly positive item_total.
C20_PositiveAmounts ==
    \A b \in 1..Len(bills) :
        /\ bills[b].total > 0
        /\ \A k \in 1..Len(bills[b].items) : bills[b].items[k].item_total > 0

\* C21: the date of a persisted bill is the date of the request when the
\* request gives one, and the creation time when it gives none.
C21_CallerDateKept ==
    \A r \in Req :
        Persisted(r) =>
            req[r].data[1].date = (IF IsSome(req[r].body.date)
                                   THEN Get(req[r].body.date)
                                   ELSE req[r].data[1].id)

\* C22: the providerName of a persisted bill is the name of the provider row
\* its providerId refers to.
C22_ProviderNameMatches ==
    \A r \in Req :
        Persisted(r) =>
            \E k \in 1..Len(providers) :
                /\ providers[k].id = req[r].data[1].providerId
                /\ providers[k].name = req[r].data[1].providerName

\* The step in which the bulk delete removes its rows.
Deleting ==
    \E r \in Req :
        /\ req[r].kind = "deleteTest"
        /\ req[r].pc = "delete"
        /\ req'[r].pc # "delete"

\* C23: no step changes a persisted bill row; a row leaves the table only in
\* the bulk delete, which removes exactly the rows of its provider name and
\* keeps the others as they are.
C23_BillsImmutable ==
    [][/\ \A i \in 1..Len(bills) :
            \/ \E j \in 1..Len(bills') : bills'[j] = bills[i]
            \/ Deleting /\ bills[i].providerName = "Test"
       /\ Deleting =>
            /\ \A i \in 1..Len(bills) :
                  bills[i].providerName # "Test"
                  => \E j \in 1..Len(bills') : bills'[j] = bills[i]
            /\ \A j \in 1..Len(bills') : bills'[j].providerName # "Test"
            /\ Len(bills') = Count({ i \in 1..Len(bills) : bills[i].providerName # "Test" })
      ]_vars

\* A bulk delete that removed a bill and left a bill of another provider name.
C23_Witness ==
    /\ bills # <<>>
    /\ \E r \in Req :
          /\ req[r].kind = "deleteTest"
          /\ req[r].pc = "done" /\ req[r].status = 200
          /\ req[r].resp # <<>>

\* C24: PATCH /api/vegetables/:id with an id that matches no catalogue row is
\* answered 404 and leaves the catalogue and the cache as they are.
C24_UnknownId404 ==
    [][\A r \in Req :
          (/\ req[r].kind = "patchVeg"
           /\ req[r].pc = "patchSelect"
           /\ req'[r] # req[r]
           /\ req[r].vid \notin { vegetables[k].id : k \in 1..Len(vegetables) })
          => /\ req'[r].pc = "done"
             /\ req'[r].status = 404
             /\ vegetables' = vegetables
             /\ cache' = cache]_vars

\* C25: GET /api/bills/:id is answered 404 exactly when neither the key
\* bill:<id> nor the table holds a bill with that id, and a 404 leaves the
\* cache as it is.
C25_NotFoundExactly ==
    [][\A r \in Req :
          (/\ req[r].kind = "getBill"
           /\ req[r].pc # "done"
           /\ req'[r].pc = "done")
          => /\ req'[r].status = 404
                <=> /\ ~IsSome(cache[BillKey(req[r].vid)])
                    /\ \A k \in 1..Len(bills) : bills[k].id # req[r].vid
             /\ req'[r].status = 404 => cache' = cache]_vars

\* C26: after a POST /api/bills whose reconciliation inserted a vegetable row
\* was answered 201, a GET /api/vegetables that starts later returns a list
\* that contains the row.
C26_ListFreshAfterWrite ==
    \A r \in Req :
        (req[r].kind = "getVegs" /\ req[r].pc = "done")
        => req[r].mustSee \subseteq { req[r].resp[k].id : k \in 1..Len(req[r].resp) }

\* The list key and the table of a cached list endpoint.
KeyOf(kind) ==
    IF kind = "getVegs" THEN "vegetables:all"
    ELSE IF kind = "getProvs" THEN "providers:all" ELSE "bills:all"

TableOf(kind) ==
    IF kind = "getVegs" THEN vegetables
    ELSE IF kind = "getProvs" THEN providers ELSE OrderByDateDesc(bills)

\* C27: a cached list endpoint (bills, providers, vegetables).  On a hit the
\* response is the cached value and the store is not read; on a miss the
\* store is read, then the rows read are written under the list key and the
\* same rows are the response.
C27_CachedListMachine ==
    [][\A r \in Req :
          (req[r].kind \in {"getVegs", "getProvs", "getBills"} /\ req'[r] # req[r])
          => LET key == KeyOf(req[r].kind) IN
             /\ req[r].pc \in {"listCacheGet", "cacheGet"} =>
                   IF IsSome(cache[key])
                   THEN /\ req'[r].pc = "done" /\ req'[r].status = 200
                        /\ req'[r].resp = Get(cache[key])
                        /\ cache' = cache
                   ELSE /\ req'[r].pc \in {"listSelect", "select"}
                        /\ cache' = cache
             /\ req[r].pc \in {"listSelect", "select"} =>
                   /\ req'[r].pc \in {"listCacheSet", "cacheSet"}
                   /\ req'[r].data = TableOf(req[r].kind)
                   /\ cache' = cache
             /\ req[r].pc \in {"listCacheSet", "cacheSet"} =>
                   /\ req'[r].pc = "done" /\ req'[r].status = 200
                   /\ req'[r].resp = req[r].data
                   /\ IsSome(cache'[key]) /\ Get(cache'[key]) = req[r].data
                   /\ \A k \in CacheKeys \ {key} : cache'[k] = cache[k]]_vars

\* A GET /api/vegetables served from the cache: its response is the cached
\* empty list, not the rows of the table.
C27_Witness ==
    \E r \in Req :
        /\ req[r].kind = "getVegs" /\ req[r].pc = "done"
        /\ IsSome(cache["vegetables:all"])
        /\ req[r].resp = Get(cache["vegetables:all"])
        /\ req[r].resp = <<>>
        /\ vegetables # <<>>

\* C28: a cache delete that fails leaves the store as it is, and the stale
\* list is served for a bounded time only: every cache entry has at most
\* CACHE_DURATION seconds left, and a read that finds the key gone reads the
\* store, returns its current rows and caches them.
C28_StalenessExpires ==
    /\ [](\A k \in CacheKeys :
            IsSome(cache[k]) =>
                cache[k][2] \in 1..((CACHE_DURATION + TickSeconds - 1) \div TickSeconds))
    /\ [][\A r \in Req :
            ("cacheErr" \in req'[r].flags /\ "cacheErr" \notin req[r].flags)
            => bills' = bills /\ vegetables' = vegetables /\ cache' = cache]_vars
    /\ [][\A r \in Req :
            (/\ req[r].kind = "getBills"
             /\ req[r].pc = "cacheSet"
             /\ req'[r].pc = "done")
            => /\ req'[r].resp = OrderByDateDesc(bills)
               /\ Get(cache'["bills:all"]) = OrderByDateDesc(bills)]_vars

\* A list cached empty, a bill whose cache delete failed, and a later GET
\* /api/bills that returns the bill: the stale entry has expired.
C28_Witness ==
    \E g1, p, g2 \in Req :
        /\ g1 < p /\ p < g2
        /\ req[g1].kind = "getBills" /\ req[g1].pc = "done" /\ req[g1].resp = <<>>
        /\ req[p].kind = "postBill" /\ req[p].status = 201 /\ "cacheErr" \in req[p].flags
        /\ req[g2].kind = "getBills" /\ req[g2].pc = "done" /\ req[g2].resp # <<>>

\* Flags of a request that met a validation error, and of one that met
\* another error.
ZodFlags == {"badItem", "badVeg"}

ErrorFlags == {"noFixedPrice", "uuidErr", "fkErr", "lookupErr", "vegsErr", "billErr",
               "selectErr", "vegErr"}

\* C29: every error raised in a handler gets exactly one response from the
\* error handler: 400 for a validation error, 500 for any other error; the
\* response of a request is final.
C29_ErrorsAnswered ==
    /\ [](\A r \in Req :
            /\ req[r].flags \cap ZodFlags # {}
                  => req[r].pc = "done" /\ req[r].status = 400
            /\ (req[r].flags \cap ZodFlags = {} /\ req[r].flags \cap ErrorFlags # {})
                  => req[r].pc = "done" /\ req[r].status = 500)
    /\ [][\A r \in Req :
            req[r].pc = "done"
            => /\ req'[r].pc = "done"
               /\ req'[r].status = req[r].status
               /\ req'[r].resp = req[r].resp]_vars

\* A validation error, a plain Error and a store error, each answered.
C29_Witness ==
    \E a, b \in Req :
        /\ req[a].flags \cap ZodFlags # {} /\ req[a].status = 400
        /\ req[b].flags \cap {"noFixedPrice", "uuidErr"} # {} /\ req[b].status = 500

\* C30: in any interval of length windowMs the rate limiter passes at most
\* max requests of one client address on to the handler.
C30_SlidingWindow ==
    \A i \in 1..Len(passed) :
        Count({ j \in 1..Len(passed) :
                  passed[i] <= passed[j] /\ passed[j] < passed[i] + windowMs }) <= max

\* The Map entry of the client address has reached max and its window is
\* still the current one.
Exhausted ==
    /\ IsSome(requests)
    /\ Get(requests).count >= max
    /\ Get(requests).timestamp >= now - windowMs

\* C31: the rate limiter's counter never exceeds max; once max requests were
\* admitted in the current window a further GET /api/bills is answered 429,
\* never enters the handler (no cache or store access), and leaves the counter
\* and the window start as they were.
C31_LimitHolds ==
    /\ [](IsSome(requests) => Get(requests).count <= max)
    /\ [][\A r \in Req :
            /\ (Exhausted /\ req[r].pc = "idle" /\ req'[r].pc # "idle")
                  => /\ req'[r].pc = "done" /\ req'[r].status = 429
                     /\ passed' = passed
            /\ (req[r].pc = "idle" /\ req'[r].status = 429)
                  => /\ requests' = requests
                     /\ cache' = cache /\ bills' = bills
            /\ req[r].status = 429 => req'[r] = req[r]]_vars

C31_Witness ==
    \E r \in Req :
        /\ req[r].status = 429 /\ req[r].pc = "done"
        /\ Get(requests).count = max
        /\ now \in rejected
        /\ \A s \in Req \ {r} : req[s].status = 200

\* C32: a client address at its limit is admitted again by the first request
\* it sends more than windowMs after the start of its window: the request sets
\* the window start to the current time and is passed on with the counter at 1.
C32_ReadmittedAfterWindow ==
    [][(/\ IsSome(requests)
        /\ Get(requests).count >= max
        /\ now > Get(requests).timestamp + windowMs
        /\ now' = now)
          => /\ requests' = Some([count |-> 1, timestamp |-> now])
             /\ passed' = Append(passed, now)
             /\ rejected' = rejected]_vars

C32_Witness ==
    /\ Len(passed) = max + 1
    /\ requests = Some([count |-> 1, timestamp |-> passed[max + 1]])
    /\ \E t \in rejected :
          /\ passed[max] <= t /\ t <= passed[1] + windowMs
          /\ passed[max + 1] > passed[1] + windowMs

\* C33: a read of the bills that arrives after the bulk delete was answered
\* serves no deleted bill: the list of GET /api/bills holds none of them and
\* GET /api/bills/:id answers no deleted bill with 200.
C33_NoDeletedBillServed ==
    \A r \in Req :
        (req[r].kind \in {"getBills", "getBill"} /\ req[r].pc = "done" /\ req[r].status = 200)
        => \A k \in 1..Len(req[r].resp) : req[r].resp[k].id \notin req[r].gone

\* C34: the value cached under bills:all is the complete bill list, ordered
\* by date descending, that the store held at some earlier or current moment.
\* Bills are only appended here, so the lists the store has held are the
\* prefixes of the table: the cached list holds exactly the first n bills.
C34_CachedListIsSnapshot ==
    IsSome(cache["bills:all"])
    => LET cached == Get(cache["bills:all"]) IN
       \E n \in 0..Len(bills) :
           /\ Len(cached) = n
           /\ \A j \in 1..n : \E k \in 1..n : cached[k] = bills[j]
           /\ \A a, b \in 1..n : a < b => cached[a].date >= cached[b].date

\* The cache holds an older list: a whole earlier state of the table.
C34_Witness ==
    /\ IsSome(cache["bills:all"])
    /\ Len(Get(cache["bills:all"])) = 1
    /\ Len(bills) = 2

\* C35: the two reconcilers agree. Their loops differ in nothing but the
\* entry pushed for a line whose name is in the catalogue, so they return the
\* same items and leave the same catalogue when, for every line that a
\* request looks up and every row of that name, the two entries are equal.
C35_ReconcilersAgree ==
    \A r \in Req :
        (req[r].kind = "postBill" /\ req[r].pc = "lookup")
        => LET item == req[r].body.items[req[r].i] IN
           \A k \in RowsNamed(item.name) :
               ResolveExisting("routes", item, vegetables[k])
                 = ResolveExisting("index", item, vegetables[k])

\* C36: the id of a catalogue row never changes and no row is removed.  A
\* PATCH /api/vegetables/:id changes the row with that id and no other row,
\* and leaves the number of rows; every other step that changes the
\* catalogue only adds rows, under ids that no row has.
C36_CatalogueRowsStay ==
    [][/\ Len(vegetables') >= Len(vegetables)
       /\ \A k \in 1..Len(vegetables) : vegetables'[k].id = vegetables[k].id
       /\ \A k \in (Len(vegetables) + 1)..Len(vegetables') :
              \A j \in 1..Len(vegetables) : vegetables'[k].id # vegetables[j].id
       /\ \A k \in 1..Len(vegetables) :
              vegetables'[k] # vegetables[k]
              => /\ \E r \in Req : /\ req[r].kind = "patchVeg"
                                   /\ req[r].pc = "patchUpdate"
                                   /\ req[r].vid = vegetables[k].id
                                   /\ req'[r] # req[r]
                 /\ Len(vegetables') = Len(vegetables)
                 /\ \A j \in 1..Len(vegetables) \ {k} : vegetables'[j] = vegetables[j]
       /\ \A r \in Req :
              (req[r].kind = "postBill" /\ req'[r] # req[r])
              => \A k \in 1..Len(vegetables) : vegetables'[k] = vegetables[k]
      ]_vars

\* A PATCH that changed a row, beside a row that a bill created.
C36_Witness ==
    \E r, b \in Req :
        /\ req[r].kind = "patchVeg" /\ req[r].pc = "done" /\ req[r].status = 200
        /\ vegetables[req[r].resp[1].id] = req[r].resp[1]
        /\ req[r].resp[1].name # "Leek"
        /\ req[b].kind = "postBill" /\ req[b].created # {}
        /\ req[r].resp[1].id \notin req[b].created
        /\ Len(vegetables) >= 2

\* C37: every POST /api/bills completes with 201, 400 or 500 when each call
\* it awaits returns or fails.  A pass of the reconciler's loop moves on to the
\* next line or leaves the loop, so there is one lookup per submitted line;
\* the batch insert runs at most once; a step of one request needs nothing
\* from another request.
C37_PostBillCompletes ==
    /\ [](\A r \in Req :
            req[r].kind = "postBill"
            => /\ req[r].pc = "lookup" => req[r].i \in 1..Len(req[r].body.items)
               /\ Count({ k \in 1..Len(req[r].ev) : req[r].ev[k] = "veg" }) <= 1)
    /\ [][\A r \in Req :
            (req[r].pc = "lookup" /\ req'[r] # req[r])
            => \/ req'[r].pc = "lookup" /\ req'[r].i = req[r].i + 1
               \/ req'[r].pc # "lookup"]_vars
    /\ \A r \in Req :
          (req[r].kind = "postBill")
          ~> (req[r].pc = "done" /\ req[r].status \in {201, 400, 500})

\* Two requests handled at once: one got through two lookups and the batch
\* insert to 201 although its cache.del failed, the other was answered 500.
C37_Witness ==
    \E a, b \in Req :
        /\ req[a].pc = "done" /\ req[a].status = 201
        /\ Len(req[a].resp[1].items) = 2 /\ req[a].created # {}
        /\ "cacheErr" \in req[a].flags
        /\ req[b].pc = "done" /\ req[b].status = 500

====
